---- MODULE Spec2Model ----
(***************************************************************************)
(* Model of src/app.py: the Instagram publishing bot.                      *)
(*                                                                         *)
(*  - the persistent store: last_post.txt, ig_settings.json,               *)
(*    device_seed.json, config.json;                                       *)
(*  - InstagramPoster: the login fallback chain and post_photo;            *)
(*  - bot_loop: the worker thread, one action per step of a cycle;         *)
(*  - the control surface: /start and /stop.                               *)
(*                                                                         *)
(* Strings that the code strips or compares are sequences of one-character *)
(* strings, so that strip() and clean_text() are computed, not assumed.    *)
(* The network and the platform answer nondeterministically at every call. *)
(* Reads and writes of the files under /data succeed in Spec; SpecIO adds  *)
(* a failing write of last_post.txt and a failing os.makedirs; SpecFair is *)
(* Spec with the worker thread scheduled fairly.  The in-memory log buffer *)
(* does not influence control flow and is specified on its own in SpecLog; *)
(* the last_published_at time stamp and /save are left out.                *)
(***************************************************************************)
EXTENDS Integers, Sequences, FiniteSets, TLC

VARIABLES
    lastPost,      \* contents of LAST_POST_PATH ("" when the file is absent)
    igSettings,    \* TRUE iff IG_SETTINGS_PATH holds a session
    deviceSeed,    \* device identity DEVICE_SEED_PATH holds (0: none)
    cfg,           \* contents of CONFIG_PATH (over load_config's base)
    pc,            \* position of the bot thread; "none": no thread yet, "dead": thread ended
    stop_event,    \* threading.Event stop_event
    args,          \* arguments the thread was started with
    logged_in,     \* poster.logged_in of the worker's current InstagramPoster
    metrics,       \* the metrics dictionary
    cur,           \* link and title of the entry the cycle works on
    published,     \* history: links of the uploads that succeeded, in order
    cyc,           \* history: what the current cycle has done
    wk,            \* history: what the current worker has done
    lg,            \* history: platform calls of the last login()
    starting,      \* /start handlers inside the bot_lock section, with their thread args
    orphans,       \* live bot threads bot_thread no longer refers to
    dv,            \* device identity of the worker's poster; history: identities
                   \* generated and writes of DEVICE_SEED_PATH
    rejected,      \* history: the latest /start returned at the credentials check
    logs,          \* the list logs; a line is the number of its log() call
    logs_lock,     \* the thread inside "with logs_lock" ("": the lock is free)
    appended       \* history: lines appended to logs so far

vars == <<lastPost, igSettings, deviceSeed, cfg, pc, stop_event, args,
          logged_in, metrics, cur, published, cyc, wk, lg, starting, orphans, dv,
          rejected, logs, logs_lock, appended>>

\* the log buffer and its lock
logvars == <<logs, logs_lock, appended>>

\* Bound: calls of log() in one run of the model.
MaxAppends == 500

\* the length the log buffer is cut to
LogCap == 400

\* Bound: uploads the platform accepts in one run of the model.
MaxPosts == 3

\* ------------------------------------------------------------------ strings
\* A string is a sequence of one-character strings; "" is << >>.
IsSpace(c) == c = " "

RECURSIVE lstrip(_)
lstrip(s) == IF s = << >> THEN s
             ELSE IF IsSpace(Head(s)) THEN lstrip(Tail(s)) ELSE s

RECURSIVE rstrip(_)
rstrip(s) == IF s = << >> THEN s
             ELSE IF IsSpace(s[Len(s)]) THEN rstrip(SubSeq(s, 1, Len(s) - 1)) ELSE s

\* str.strip()
strip(s) == rstrip(lstrip(s))

\* re.sub(r"\s+", " ", s): every run of white space becomes one blank
RECURSIVE collapse(_)
collapse(s) ==
    IF Len(s) < 2 THEN s
    ELSE IF IsSpace(s[1]) /\ IsSpace(s[2]) THEN collapse(Tail(s))
         ELSE <<s[1]>> \o collapse(Tail(s))

\* clean_text(s): "" for an empty value, else white space collapsed and stripped
\* (the texts of the model carry no markup, so get_text() only strips)
clean_text(s) == IF s = << >> THEN << >> ELSE strip(collapse(strip(s)))

\* ------------------------------------------------------------ input domains
\* entry.link values the feed may carry (raw, before .strip())
RawLinks == { << >>, <<" ">>, <<"a">>, <<" ", "a">>, <<"a", " ">>, <<"b">> }

\* entry.title values the feed may carry (raw)
RawTitles == { << >>, <<" ">>, <<"t">>, <<"t", " ">>, <<"u">> }

\* what get_latest_entry does: raise, return None, or return the newest entry
FeedAnswers ==
    { [kind |-> "raise"], [kind |-> "none"] }
    \cup { [kind |-> "entry", link |-> l, title |-> t] : l \in RawLinks, t \in RawTitles }

\* what the platform answers to a login or to the get_timeline_feed probe
AuthAnswers == { "ok", "fail", "challenge", "twofactor" }

\* what the warm-up get_timeline_feed after a login does (its exception is swallowed)
WarmAnswers == { "ok", "fail" }

\* what the platform answers to photo_upload: accepted, the CSRF error, another error
UploadAnswers == { "ok", "csrf", "err" }

\* form fields of a POST /start (raw, before .strip())
FormUsers == { << >>, <<"u", " ">> }
FormPasswords == { << >>, <<"p">> }
FormSessionids == { << >>, <<" ">>, <<" ", "s">> }

\* ---------------------------------------------------------- error messages
\* str(e) of the exceptions the model raises
MsgCsrf == "CSRF token missing or incorrect"
MsgUpload == "upload failed"
MsgNotLogged == "Non loggato."
MsgMissing == "Username/password mancanti."
MsgFeed == "feed error"
MsgWrite == "write failed"

\* is_csrf_error(e), on the messages of the model
is_csrf_error(msg) == msg = MsgCsrf

\* the exception of a platform call, by the platform's answer
UploadError(ans) == IF ans = "csrf" THEN MsgCsrf ELSE MsgUpload

\* (faulty variant: the platform's exception is wrapped in a generic one)
AuthErrorKind_generic(ans) == "Exception"

\* exception kinds of a failed platform login
AuthErrorKind(ans) ==
    CASE ans = "challenge" -> "ChallengeRequired"
      [] ans = "twofactor" -> "TwoFactorRequired"
      [] OTHER -> "Exception"

\* str(e) of a failed platform login
AuthErrorMsg(ans) ==
    CASE ans = "challenge" -> "challenge_required"
      [] ans = "twofactor" -> "two_factor_required"
      [] OTHER -> "login failed"

\* ------------------------------------------------------- InstagramPoster
\* The operators below return the poster and the store after the call:
\*   ret        the return value (of the methods that return a bool)
\*   raised     "" or the kind of the exception the call raises
\*   msg        str(e) of that exception
\*   logged_in  poster.logged_in after the call
\*   blob       whether ig_settings.json exists after the call
\*   calls      platform calls made: <<probe of restore, login_by_sessionid, cl.login>>

\* (faulty variant: every construction generates and saves device_settings)
poster_init_seed_fresh(seed, gens) ==
    [dev |-> gens + 1, seed |-> gens + 1, gens |-> gens + 1, writes |-> 1]

\* InstagramPoster.__init__, device part: the stored device_settings are
\* reused when present, else generated (set_device) and saved.  seed is the
\* identity in device_seed.json (0: none), gens the identities generated so
\* far; the n-th generated identity is n.  Returns the client's identity, the
\* file, the generated count and the writes of the file made.
poster_init_seed(seed, gens) ==
    IF seed # 0
    THEN [dev |-> seed, seed |-> seed, gens |-> gens, writes |-> 0]
    ELSE [dev |-> gens + 1, seed |-> gens + 1, gens |-> gens + 1, writes |-> 1]

\* the worker's device record after a construction that returned d
constructed(old, d) ==
    [dev |-> d.dev, gens |-> d.gens, writes |-> old.writes + d.writes]

\* (faulty variant: a session that fails the probe stays in ig_settings.json)
try_restore_settings_session_keep(li, blob, probe) ==
    IF ~blob
    THEN [ret |-> FALSE, logged_in |-> li, blob |-> blob, calls |-> 0]
    ELSE IF probe = "ok"
         THEN [ret |-> TRUE, logged_in |-> TRUE, blob |-> blob, calls |-> 1]
         ELSE [ret |-> FALSE, logged_in |-> FALSE, blob |-> blob, calls |-> 1]

\* try_restore_settings_session; probe: answer to get_timeline_feed
try_restore_settings_session(li, blob, probe) ==
    IF ~blob
    THEN [ret |-> FALSE, logged_in |-> li, blob |-> blob, calls |-> 0]
    ELSE IF probe = "ok"
         THEN [ret |-> TRUE, logged_in |-> TRUE, blob |-> blob, calls |-> 1]
         ELSE \* except Exception: delete_ig_settings()
              [ret |-> FALSE, logged_in |-> FALSE, blob |-> FALSE, calls |-> 1]

\* (faulty variant: the warm-up probe decides, its exception fails the login)
login_with_sessionid_probed(li, blob, sessionid, ans, warm) ==
    LET sid == strip(sessionid) IN
    IF sid = << >>
    THEN [ret |-> FALSE, logged_in |-> li, blob |-> blob, calls |-> 0]
    ELSE IF ans = "ok" /\ warm = "ok"
         THEN [ret |-> TRUE, logged_in |-> TRUE, blob |-> TRUE, calls |-> 1]
         ELSE [ret |-> FALSE, logged_in |-> FALSE, blob |-> blob, calls |-> 1]

\* login_with_sessionid; ans: answer to login_by_sessionid, warm: answer to the
\* warm-up get_timeline_feed (its exception is swallowed)
login_with_sessionid(li, blob, sessionid, ans, warm) ==
    LET sid == strip(sessionid) IN
    IF sid = << >>
    THEN [ret |-> FALSE, logged_in |-> li, blob |-> blob, calls |-> 0]
    ELSE IF ans = "ok"
         THEN [ret |-> TRUE, logged_in |-> TRUE, blob |-> TRUE, calls |-> 1]
         ELSE [ret |-> FALSE, logged_in |-> FALSE, blob |-> blob, calls |-> 1]

\* (faulty variant: the session of a successful login is not saved)
login_with_userpass_nosave(li, blob, username, password, ans) ==
    IF username = << >> \/ password = << >>
    THEN [raised |-> "LoginRequired", msg |-> MsgMissing,
          logged_in |-> li, blob |-> blob, calls |-> 0]
    ELSE IF ans = "ok"
         THEN [raised |-> "", msg |-> "",
               logged_in |-> TRUE, blob |-> blob, calls |-> 1]
         ELSE [raised |-> AuthErrorKind(ans), msg |-> AuthErrorMsg(ans),
               logged_in |-> li, blob |-> blob, calls |-> 1]

\* login_with_userpass; ans: answer to cl.login(username, password, relogin=True)
login_with_userpass(li, blob, username, password, ans) ==
    IF username = << >> \/ password = << >>
    THEN [raised |-> "LoginRequired", msg |-> MsgMissing,
          logged_in |-> li, blob |-> blob, calls |-> 0]
    ELSE IF ans = "ok"
         THEN [raised |-> "", msg |-> "",
               logged_in |-> TRUE, blob |-> TRUE, calls |-> 1]
         ELSE [raised |-> AuthErrorKind(ans), msg |-> AuthErrorMsg(ans),
               logged_in |-> li, blob |-> blob, calls |-> 1]

\* (faulty variant: the return after a successful restore is missing)
login_no_return(li, blob, username, password, sessionid, probe, cookie, warm, userpass) ==
    LET r1 == try_restore_settings_session(li, blob, probe)
        r2 == IF sessionid # << >>
              THEN login_with_sessionid(r1.logged_in, r1.blob, sessionid, cookie, warm)
              ELSE [ret |-> FALSE, logged_in |-> r1.logged_in,
                    blob |-> r1.blob, calls |-> 0]
    IN  IF r2.ret
        THEN [raised |-> "", msg |-> "", logged_in |-> r2.logged_in,
              blob |-> r2.blob, calls |-> <<r1.calls, r2.calls, 0>>]
        ELSE LET r3 == login_with_userpass(r2.logged_in, r2.blob,
                                           username, password, userpass)
             IN  [raised |-> r3.raised, msg |-> r3.msg,
                  logged_in |-> r3.logged_in, blob |-> r3.blob,
                  calls |-> <<r1.calls, r2.calls, r3.calls>>]

\* InstagramPoster.login: restore, then sessionid, then username/password
login(li, blob, username, password, sessionid, probe, cookie, warm, userpass) ==
    LET r1 == try_restore_settings_session(li, blob, probe) IN
    IF r1.ret
    THEN [raised |-> "", msg |-> "", logged_in |-> r1.logged_in, blob |-> r1.blob,
          calls |-> <<r1.calls, 0, 0>>]
    ELSE LET r2 == IF sessionid # << >>
                   THEN login_with_sessionid(r1.logged_in, r1.blob, sessionid, cookie, warm)
                   ELSE [ret |-> FALSE, logged_in |-> r1.logged_in,
                         blob |-> r1.blob, calls |-> 0]
         IN  IF r2.ret
             THEN [raised |-> "", msg |-> "", logged_in |-> r2.logged_in,
                   blob |-> r2.blob, calls |-> <<r1.calls, r2.calls, 0>>]
             ELSE LET r3 == login_with_userpass(r2.logged_in, r2.blob,
                                                username, password, userpass)
                  IN  [raised |-> r3.raised, msg |-> r3.msg,
                       logged_in |-> r3.logged_in, blob |-> r3.blob,
                       calls |-> <<r1.calls, r2.calls, r3.calls>>]

\* post_photo: ensure_login, photo_upload, save_ig_settings
post_photo(li, blob, ans) ==
    IF ~li
    THEN [raised |-> "LoginRequired", msg |-> MsgNotLogged, blob |-> blob, uploads |-> 0]
    ELSE IF ans = "ok"
         THEN [raised |-> "", msg |-> "", blob |-> TRUE, uploads |-> 1]
         ELSE [raised |-> "Exception", msg |-> UploadError(ans), blob |-> blob, uploads |-> 1]

\* ------------------------------------------------------------ persistence
\* get_last_posted_url(): the stripped contents of last_post.txt
get_last_posted_url(file) == strip(file)

\* (faulty variant: the file is opened for writing and nothing is written)
save_last_posted_url_empty(url) == << >>

\* save_last_posted_url(url): the contents of last_post.txt afterwards
save_last_posted_url(url) == strip(url)

\* ------------------------------------------------------------------- Init
NoEntry == [link |-> << >>, title |-> << >>]

\* history of a cycle that has done nothing yet
\*   same      the polled link equals the stored marker
\*   ready     the image was downloaded
\*   uploads   photo_upload calls;  rejects: platform calls that failed
\*   firstErr  str(e) of the exception of the first post_photo
\*   posters   InstagramPoster objects constructed;  recoveries: recoveries begun
\*   rcalls    platform calls of the recovery login: <<probe, sessionid, userpass>>
\*   relogged  the recovery login succeeded
\*   ok        an upload succeeded;  err: str(e) the per-cycle handler caught
NewCycle == [polled |-> FALSE, same |-> FALSE, lookups |-> 0, downloads |-> 0,
             ready |-> FALSE, uploads |-> 0, rejects |-> 0, firstErr |-> "",
             posters |-> 0, recoveries |-> 0, rcalls |-> <<0, 0, 0>>,
             relogged |-> FALSE, ok |-> FALSE, err |-> "",
             img |-> "", body |-> ""]

\* history of a worker that has done nothing yet
NewWorker == [logins |-> 0, loginFailed |-> FALSE]

\* history of a login() that has not run
\*   calls, got  platform calls made and the answers they got
\*   li0, blob0  poster.logged_in and ig_settings.json before the call
\*   restored, li1, blob1  return value of try_restore_settings_session, and
\*               logged_in and ig_settings.json after it
\*   cookied, li2, blob2   the same for the sessionid step (skipped: as after restore)
\*   warm        what the warm-up probe of the sessionid login got ("": not made)
NoLogin == [calls |-> <<0, 0, 0>>, got |-> <<"", "", "">>, raised |-> "", done |-> FALSE,
            li0 |-> FALSE, blob0 |-> FALSE,
            restored |-> FALSE, li1 |-> FALSE, blob1 |-> FALSE,
            cookied |-> FALSE, li2 |-> FALSE, blob2 |-> FALSE, warm |-> ""]

Init ==
    /\ lastPost = << >>
    /\ igSettings = FALSE
    /\ deviceSeed = 0
    /\ cfg = [username |-> << >>, password |-> << >>, sessionid |-> << >>]
    /\ pc = "none"
    /\ stop_event = FALSE
    /\ args = [username |-> << >>, password |-> << >>, sessionid |-> << >>]
    /\ logged_in = FALSE
    /\ metrics = [running |-> FALSE, last_title |-> << >>, last_link |-> << >>,
                  last_error |-> "", posts_count |-> 0]
    /\ cur = NoEntry
    /\ published = << >>
    /\ cyc = NewCycle
    /\ wk = NewWorker
    /\ lg = NoLogin
    /\ starting = << >>
    /\ orphans = 0
    /\ dv = [dev |-> 0, gens |-> 0, writes |-> 0]
    /\ rejected = FALSE
    /\ logs = << >>
    /\ logs_lock = ""
    /\ appended = 0

\* ---------------------------------------------------------------- bot_loop
\* bot_thread is not None and bot_thread.is_alive()
is_alive == pc \notin {"none", "dead"}

\* what bot_loop writes to last_error when login() raises
LoginErrorText(r) ==
    CASE r.raised = "TwoFactorRequired" -> "2FA required"
      [] r.raised = "ChallengeRequired" -> "Challenge required"
      [] OTHER -> r.msg

\* (faulty variant: the except clause of login() lacks its return)
after_login_error_top == "top"

\* where bot_loop goes when login() raises: it returns, the thread ends
after_login_error == "dead"

\* (faulty variant: no handler around the cycle, the exception ends the thread)
after_cycle_error_dead == "dead"

\* (faulty variant: the exception is swallowed and the cycle goes on to the recording)
after_cycle_error_record == "record"

\* where the cycle goes when the per-cycle handler has caught an exception
after_cycle_error == "sleep"

\* the per-cycle handler: except Exception as e: set_metric("last_error", str(e))
CycleError(msg) ==
    /\ metrics' = [metrics EXCEPT !.last_error = msg]
    /\ pc' = after_cycle_error

\* bot_loop entry: poster = InstagramPoster(); running = True; last_error = ""
W_Start ==
    /\ pc = "start"
    /\ LET d == poster_init_seed(deviceSeed, dv.gens)
       IN  /\ deviceSeed' = d.seed
           /\ dv' = constructed(dv, d)
    /\ logged_in' = FALSE
    /\ metrics' = [metrics EXCEPT !.running = TRUE, !.last_error = ""]
    /\ pc' = "login"
    /\ UNCHANGED <<lastPost, igSettings, cfg, stop_event, args, cur, published,
                   cyc, wk, lg>>
    /\ UNCHANGED <<starting, orphans, rejected>>
    /\ UNCHANGED logvars

\* the platform answers a login() consumed, "" for the calls it did not make
Got(calls, probe, cookie, userpass) ==
    << IF calls[1] = 1 THEN probe ELSE "",
       IF calls[2] = 1 THEN cookie ELSE "",
       IF calls[3] = 1 THEN userpass ELSE "" >>

\* poster.login(...) and its three except clauses
W_Login ==
    /\ pc = "login"
    /\ \E probe \in AuthAnswers, cookie \in AuthAnswers, warm \in WarmAnswers,
          userpass \in AuthAnswers :
        LET r == login(logged_in, igSettings, args.username, args.password,
                       args.sessionid, probe, cookie, warm, userpass)
            \* the steps of the chain, for the history
            r1 == try_restore_settings_session(logged_in, igSettings, probe)
            r2 == IF r.calls[2] = 1
                  THEN login_with_sessionid(r1.logged_in, r1.blob, args.sessionid,
                                            cookie, warm)
                  ELSE [ret |-> FALSE, logged_in |-> r1.logged_in, blob |-> r1.blob,
                        calls |-> 0]
        IN  /\ logged_in' = r.logged_in
            /\ igSettings' = r.blob
            /\ lg' = [calls |-> r.calls, got |-> Got(r.calls, probe, cookie, userpass),
                      raised |-> r.raised, done |-> TRUE,
                      li0 |-> logged_in, blob0 |-> igSettings,
                      restored |-> r1.ret, li1 |-> r1.logged_in, blob1 |-> r1.blob,
                      cookied |-> r2.ret, li2 |-> r2.logged_in, blob2 |-> r2.blob,
                      warm |-> IF r.calls[2] = 1 /\ cookie = "ok" THEN warm ELSE ""]
            /\ IF r.raised = ""
               THEN /\ pc' = "mkdir"
                    /\ metrics' = metrics
                    /\ wk' = [wk EXCEPT !.logins = @ + 1]
               ELSE /\ pc' = after_login_error
                    /\ metrics' = [metrics EXCEPT !.last_error = LoginErrorText(r),
                                                  !.running = FALSE]
                    /\ wk' = [wk EXCEPT !.logins = @ + 1, !.loginFailed = TRUE]
    /\ UNCHANGED <<lastPost, deviceSeed, cfg, stop_event, args, cur, published, cyc>>
    /\ UNCHANGED <<starting, orphans, dv, rejected>>
    /\ UNCHANGED logvars

\* os.makedirs(IMAGES_DIR, exist_ok=True)
W_Makedirs ==
    /\ pc = "mkdir"
    /\ pc' = "top"
    /\ UNCHANGED <<lastPost, igSettings, deviceSeed, cfg, stop_event, args,
                   logged_in, metrics, cur, published, cyc, wk, lg,
                   starting, orphans, dv, rejected>>
    /\ UNCHANGED logvars

\* os.makedirs raises: nothing in bot_loop catches it, the thread ends
W_MakedirsFails ==
    /\ pc = "mkdir"
    /\ pc' = "dead"
    /\ UNCHANGED <<lastPost, igSettings, deviceSeed, cfg, stop_event, args,
                   logged_in, metrics, cur, published, cyc, wk, lg,
                   starting, orphans, dv, rejected>>
    /\ UNCHANGED logvars

\* while not stop_event.is_set(): ... ; after the loop: running = False
W_Top ==
    /\ pc = "top"
    /\ IF stop_event
       THEN /\ pc' = "dead"
            /\ metrics' = [metrics EXCEPT !.running = FALSE]
       ELSE /\ pc' = "poll"
            /\ UNCHANGED metrics
    /\ cyc' = NewCycle
    /\ cur' = NoEntry
    /\ lg' = NoLogin
    /\ UNCHANGED <<lastPost, igSettings, deviceSeed, cfg, stop_event, args,
                   logged_in, published, wk>>
    /\ UNCHANGED <<starting, orphans, dv, rejected>>
    /\ UNCHANGED logvars

\* (faulty variant: the link is used as the feed gives it)
entry_link_raw(raw) == raw

\* link = getattr(entry, "link", "").strip()
entry_link(raw) == strip(raw)

\* title = clean_text(getattr(entry, "title", "").strip())
entry_title(raw) == clean_text(strip(raw))

\* the idempotence guard: if link == last
nothing_new(link, last) == link = last

\* the entry is incomplete: if not link or not title
incomplete(link, title) == link = << >> \/ title = << >>

\* get_latest_entry, the completeness check and the idempotence guard
W_Poll ==
    /\ pc = "poll"
    /\ \E f \in FeedAnswers :
        IF f.kind = "raise"
        THEN /\ CycleError(MsgFeed)
             /\ cyc' = [cyc EXCEPT !.polled = TRUE, !.err = MsgFeed]
             /\ UNCHANGED cur
        ELSE /\ UNCHANGED metrics
             /\ IF f.kind = "none"
                THEN /\ pc' = "sleep"
                     /\ cyc' = [cyc EXCEPT !.polled = TRUE]
                     /\ UNCHANGED cur
                ELSE LET link == entry_link(f.link)
                         title == entry_title(f.title)
                         last == get_last_posted_url(lastPost)
                     IN  /\ cyc' = [cyc EXCEPT !.polled = TRUE,
                                               !.same = (strip(f.link) = lastPost)]
                         /\ cur' = [link |-> link, title |-> title]
                         /\ pc' = IF incomplete(link, title) \/ nothing_new(link, last)
                                  THEN "sleep"
                                  ELSE "fetch"
    /\ UNCHANGED <<lastPost, igSettings, deviceSeed, cfg, stop_event, args,
                   logged_in, published, wk, lg>>
    /\ UNCHANGED <<starting, orphans, dv, rejected>>
    /\ UNCHANGED logvars

\* og:image values get_featured_image_url may return ("" when none is found)
ImageUrls == { << >>, <<"i">> }

\* texts get_article_excerpt and get_excerpt_from_feed_entry may return
Excerpts == { << >>, <<"x">> }

\* excerpt = get_article_excerpt(...); if not excerpt: excerpt = the feed's
choose_excerpt(article, fallback) == IF article = << >> THEN fallback ELSE article

\* (faulty variant: the cycle goes on without an image)
no_image_never(img_url) == FALSE

\* if not img_url
no_image(img_url) == img_url = << >>

\* get_featured_image_url, then the excerpt and the caption; history: cyc.img
\* is "none"/"url" for the lookup's result, cyc.body "empty"/"text" for the
\* excerpt that went into the caption
W_Fetch ==
    /\ pc = "fetch"
    /\ \E img_url \in ImageUrls :
        IF no_image(img_url)
        THEN /\ cyc' = [cyc EXCEPT !.lookups = @ + 1,
                                   !.img = IF img_url = << >> THEN "none" ELSE "url"]
             /\ pc' = "sleep"
        ELSE \E article \in Excerpts, fallback \in Excerpts :
                LET excerpt == choose_excerpt(article, fallback)
                IN  /\ cyc' = [cyc EXCEPT !.lookups = @ + 1,
                                          !.img = IF img_url = << >> THEN "none" ELSE "url",
                                          !.body = IF excerpt = << >> THEN "empty" ELSE "text"]
                    /\ pc' = "download"
    /\ UNCHANGED <<lastPost, igSettings, deviceSeed, cfg, stop_event, args,
                   logged_in, metrics, cur, published, wk, lg>>
    /\ UNCHANGED <<starting, orphans, dv, rejected>>
    /\ UNCHANGED logvars

\* download_image returns True or False
W_Download ==
    /\ pc = "download"
    /\ \E ok \in BOOLEAN :
        /\ cyc' = [cyc EXCEPT !.downloads = @ + 1, !.ready = ok]
        /\ pc' = IF ok THEN "publish" ELSE "sleep"
    /\ UNCHANGED <<lastPost, igSettings, deviceSeed, cfg, stop_event, args,
                   logged_in, metrics, cur, published, wk, lg>>
    /\ UNCHANGED <<starting, orphans, dv, rejected>>
    /\ UNCHANGED logvars

\* the answers the platform may give to an upload now (it accepts MaxPosts uploads)
UploadsNow == IF Len(published) < MaxPosts THEN UploadAnswers ELSE UploadAnswers \ {"ok"}

\* whether the handler around the first post_photo starts the recovery
recovers(msg) == is_csrf_error(msg)

\* the first poster.post_photo of the cycle and its except clause
W_Publish ==
    /\ pc = "publish"
    /\ \E ans \in UploadsNow :
        LET r == post_photo(logged_in, igSettings, ans) IN
        /\ igSettings' = r.blob
        /\ IF r.raised = ""
           THEN /\ pc' = "record"
                /\ published' = Append(published, cur.link)
                /\ cyc' = [cyc EXCEPT !.uploads = @ + r.uploads, !.ok = TRUE]
                /\ UNCHANGED metrics
           ELSE IF recovers(r.msg)
                THEN /\ pc' = "recover"
                     /\ cyc' = [cyc EXCEPT !.uploads = @ + r.uploads, !.rejects = @ + 1,
                                           !.firstErr = r.msg]
                     /\ UNCHANGED <<metrics, published>>
                ELSE /\ CycleError(r.msg)
                     /\ cyc' = [cyc EXCEPT !.uploads = @ + r.uploads,
                                           !.rejects = @ + r.uploads,
                                           !.firstErr = r.msg, !.err = r.msg]
                     /\ UNCHANGED published
    /\ UNCHANGED <<lastPost, deviceSeed, cfg, stop_event, args, logged_in, cur, wk, lg>>
    /\ UNCHANGED <<starting, orphans, dv, rejected>>
    /\ UNCHANGED logvars

\* (faulty variant: the recovery calls poster.login, the whole chain)
recovery_login_chain(username, password, sessionid, probe, cookie, warm, userpass) ==
    login(FALSE, FALSE, username, password, sessionid, probe, cookie, warm, userpass)

\* the login of the recovery, on the fresh poster and with ig_settings.json
\* deleted: login_with_userpass alone, not the chain of login()
recovery_login(username, password, sessionid, probe, cookie, warm, userpass) ==
    LET r == login_with_userpass(FALSE, FALSE, username, password, userpass)
    IN  [raised |-> r.raised, msg |-> r.msg, logged_in |-> r.logged_in,
         blob |-> r.blob, calls |-> <<0, 0, r.calls>>]

\* the recovery: delete_ig_settings(); poster = InstagramPoster();
\* poster.login_with_userpass(username, password)
W_Recover ==
    /\ pc = "recover"
    /\ \E probe \in AuthAnswers, cookie \in AuthAnswers, warm \in WarmAnswers,
          userpass \in AuthAnswers :
        LET r == recovery_login(args.username, args.password, args.sessionid,
                                probe, cookie, warm, userpass)
        IN
        /\ LET d == poster_init_seed(deviceSeed, dv.gens)
           IN  /\ deviceSeed' = d.seed
               /\ dv' = constructed(dv, d)
        /\ logged_in' = r.logged_in
        /\ igSettings' = r.blob
        /\ IF r.raised = ""
           THEN /\ pc' = "retry"
                /\ cyc' = [cyc EXCEPT !.posters = @ + 1, !.recoveries = @ + 1,
                                      !.rcalls = r.calls, !.relogged = TRUE]
                /\ UNCHANGED metrics
           ELSE /\ CycleError(r.msg)
                /\ cyc' = [cyc EXCEPT !.posters = @ + 1, !.recoveries = @ + 1,
                                      !.rcalls = r.calls,
                                      !.rejects = @ + 1, !.err = r.msg]
    /\ UNCHANGED <<lastPost, cfg, stop_event, args, cur, published, wk, lg>>
    /\ UNCHANGED <<starting, orphans, rejected>>
    /\ UNCHANGED logvars

\* the retry: the second poster.post_photo, whose exception is not handled again
W_Retry ==
    /\ pc = "retry"
    /\ \E ans \in UploadsNow :
        LET r == post_photo(logged_in, igSettings, ans) IN
        /\ igSettings' = r.blob
        /\ IF r.raised = ""
           THEN /\ pc' = "record"
                /\ published' = Append(published, cur.link)
                /\ cyc' = [cyc EXCEPT !.uploads = @ + r.uploads, !.ok = TRUE]
                /\ UNCHANGED metrics
           ELSE /\ CycleError(r.msg)
                /\ cyc' = [cyc EXCEPT !.uploads = @ + r.uploads,
                                      !.rejects = @ + r.uploads, !.err = r.msg]
                /\ UNCHANGED published
    /\ UNCHANGED <<lastPost, deviceSeed, cfg, stop_event, args, logged_in, cur, wk, lg>>
    /\ UNCHANGED <<starting, orphans, dv, rejected>>
    /\ UNCHANGED logvars

\* (faulty variant: the counter is set, not incremented)
inc_posts_count_set(n) == 1

\* inc_posts_count()
inc_posts_count(n) == n + 1

\* after a successful post_photo: save_last_posted_url(link) and the metrics
W_Record ==
    /\ pc = "record"
    /\ lastPost' = save_last_posted_url(cur.link)
    /\ metrics' = [metrics EXCEPT !.last_title = cur.title, !.last_link = cur.link,
                                  !.posts_count = inc_posts_count(@),
                                  !.last_error = ""]
    /\ pc' = "sleep"
    /\ UNCHANGED <<igSettings, deviceSeed, cfg, stop_event, args, logged_in, cur,
                   published, cyc, wk, lg>>
    /\ UNCHANGED <<starting, orphans, dv, rejected>>
    /\ UNCHANGED logvars

\* save_last_posted_url raises (makedirs or open fails, the file is not touched):
\* the per-cycle handler catches it, the metrics of the publish are not written
W_RecordFails ==
    /\ pc = "record"
    /\ CycleError(MsgWrite)
    /\ cyc' = [cyc EXCEPT !.err = MsgWrite]
    /\ UNCHANGED <<lastPost, igSettings, deviceSeed, cfg, stop_event, args,
                   logged_in, cur, published, wk, lg>>
    /\ UNCHANGED <<starting, orphans, dv, rejected>>
    /\ UNCHANGED logvars

\* time.sleep(CHECK_INTERVAL), on the continue paths and at the end of the cycle
W_Sleep ==
    /\ pc = "sleep"
    /\ pc' = "top"
    /\ UNCHANGED <<lastPost, igSettings, deviceSeed, cfg, stop_event, args,
                   logged_in, metrics, cur, published, cyc, wk, lg>>
    /\ UNCHANGED <<starting, orphans, dv, rejected>>
    /\ UNCHANGED logvars

\* ---------------------------------------------------------- control surface
\* Python's (a or b) on strings
Or(a, b) == IF a # << >> THEN a ELSE b

\* (faulty variant: the section is entered without the lock)
lock_free_always == TRUE

\* bot_lock can be acquired: no handler is inside "with bot_lock"
lock_free == starting = << >>

\* (faulty variant: the check of the running thread is missing)
already_running_never == FALSE

\* running = bot_thread is not None and bot_thread.is_alive()
already_running == is_alive

\* (faulty variant: only a request with neither of the two is rejected)
missing_credentials_both(username, password) == username = << >> /\ password = << >>

\* if not username or not password
missing_credentials(username, password) == username = << >> \/ password = << >>

\* POST /start with the given form fields, up to the check under bot_lock: a
\* request without username or password returns before the lock; the others
\* save the configuration, take the lock and return when the bot is running
Start(f_user, f_pass, f_sid) ==
    LET sessionid == Or(strip(f_sid), strip(cfg.sessionid))
        username == Or(strip(f_user), strip(cfg.username))
        password == Or(strip(f_pass), strip(cfg.password))
    IN  IF missing_credentials(username, password)
        THEN /\ rejected' = TRUE
             /\ UNCHANGED <<lastPost, igSettings, deviceSeed, cfg, pc, stop_event,
                            args, logged_in, metrics, cur, published, cyc, wk, lg,
                            starting, orphans, dv, logvars>>
        ELSE /\ lock_free
             /\ rejected' = FALSE
             /\ cfg' = [username |-> username, password |-> password,
                        sessionid |-> sessionid]
             /\ IF already_running
                THEN UNCHANGED starting
                ELSE starting' = Append(starting,
                                        [username |-> username, password |-> password,
                                         sessionid |-> sessionid])
             /\ UNCHANGED <<lastPost, igSettings, deviceSeed, logged_in, metrics,
                            published, pc, stop_event, args, wk, cyc, cur, lg,
                            orphans, dv, logvars>>

\* (faulty variant: the event is not cleared before the thread starts)
clear_skipped(ev) == ev

\* stop_event.clear()
clear(ev) == FALSE

\* POST /start, the rest of the bot_lock section: stop_event.clear(), the new
\* thread is assigned to bot_thread and started, the lock is released
StartSpawn ==
    /\ starting # << >>
    /\ stop_event' = clear(stop_event)
    /\ orphans' = orphans + (IF is_alive THEN 1 ELSE 0)
    /\ pc' = "start"
    /\ args' = Head(starting)
    /\ starting' = Tail(starting)
    /\ wk' = NewWorker
    /\ cyc' = NewCycle
    /\ cur' = NoEntry
    /\ lg' = NoLogin
    /\ UNCHANGED <<lastPost, igSettings, deviceSeed, cfg, logged_in, metrics,
                   published, dv, rejected>>
    /\ UNCHANGED logvars

\* POST /stop
Stop ==
    /\ stop_event' = TRUE
    /\ UNCHANGED <<lastPost, igSettings, deviceSeed, cfg, pc, args, logged_in,
                   metrics, cur, published, cyc, wk, lg, starting, orphans, dv,
                   rejected>>
    /\ UNCHANGED logvars

\* -------------------------------------------------------------------- Next
Worker ==
    \/ W_Start
    \/ W_Login
    \/ W_Makedirs
    \/ W_Top
    \/ W_Poll
    \/ W_Fetch
    \/ W_Download
    \/ W_Publish
    \/ W_Recover
    \/ W_Retry
    \/ W_Record
    \/ W_Sleep

Control ==
    \/ \E u \in FormUsers, p \in FormPasswords, s \in FormSessionids : Start(u, p, s)
    \/ StartSpawn
    \/ Stop

Next == Worker \/ Control

Spec == Init /\ [][Next]_vars

\* with failing writes under /data: last_post.txt, the images directory
NextIO == Next \/ W_RecordFails \/ W_MakedirsFails

SpecIO == Init /\ [][NextIO]_vars

\* ---------------------------------------------------------- the log buffer
\* log() reads and writes the list logs alone, and /logs alone reads it, so
\* the buffer is specified on its own: SpecLog is any sequence of log()
\* calls from the request threads and the bot thread.

\* the threads that call log()
Threads == {"flask", "bot"}

\* Python's buf[-k:]
last_lines(buf, k) == IF Len(buf) <= k THEN buf ELSE SubSeq(buf, Len(buf) - k + 1, Len(buf))

\* (faulty variant: the oldest lines are kept, logs[:400])
trim_head(buf) == IF Len(buf) > LogCap THEN SubSeq(buf, 1, LogCap) ELSE buf

\* if len(logs) > 400: logs[:] = logs[-400:]
trim(buf) == IF Len(buf) > LogCap THEN last_lines(buf, LogCap) ELSE buf

\* log(): with logs_lock: logs.append(line)
LogAppend(t) ==
    /\ logs_lock = ""
    /\ appended < MaxAppends
    /\ logs_lock' = t
    /\ appended' = appended + 1
    /\ logs' = Append(logs, appended + 1)
    /\ UNCHANGED <<lastPost, igSettings, deviceSeed, cfg, pc, stop_event, args,
                   logged_in, metrics, cur, published, cyc, wk, lg, starting,
                   orphans, dv, rejected>>

\* log(): the trim, and the release of logs_lock
LogTrim(t) ==
    /\ logs_lock = t
    /\ logs' = trim(logs)
    /\ logs_lock' = ""
    /\ UNCHANGED <<lastPost, igSettings, deviceSeed, cfg, pc, stop_event, args,
                   logged_in, metrics, cur, published, cyc, wk, lg, starting,
                   orphans, dv, rejected, appended>>

\* GET /logs: with logs_lock: logs[-400:]
get_logs(buf) == last_lines(buf, LogCap)

NextLog == \E t \in Threads : LogAppend(t) \/ LogTrim(t)

SpecLog == Init /\ [][NextLog]_vars

\* the bot thread is a daemon thread the interpreter keeps scheduling, and
\* each of its steps ends (requests carry timeouts, the sleep is finite)
SpecFair == Spec /\ WF_vars(Worker)

\* live bot threads
workers_alive == (IF is_alive THEN 1 ELSE 0) + orphans

\* ------------------------------------------------------------------ claims
CyclePcs == {"top", "poll", "fetch", "download", "publish", "recover", "retry",
             "record", "sleep"}

Verification == {"challenge", "twofactor"}

\* C1: in a cycle whose polled link equals the stored last-published marker
\* there is no image lookup, no download and no upload, whatever the title is;
\* the cycle only sleeps and the loop polls again.
C1_IdempotenceGuard ==
    cyc.same => /\ cyc.lookups = 0
                /\ cyc.downloads = 0
                /\ cyc.uploads = 0
                /\ ~cyc.ok
                /\ pc \in {"sleep", "top", "dead"}

\* C1 witness: the feed shows the published link again, under another title
C1_Witness ==
    /\ cyc.same
    /\ pc = "sleep"
    /\ lastPost = <<"a">>
    /\ cur.link = <<"a">>
    /\ cur.title # << >>
    /\ cur.title # metrics.last_title

\* C2: at most one upload succeeds for each distinct link (fails: the feed's
\* newest entry goes a, b, a and a is uploaded twice).
C2_AtMostOncePerIdentifier ==
    \A i, j \in 1..Len(published) : i # j => published[i] # published[j]

C4_MarkerOnlyAfterPublish ==
    [][ lastPost' # lastPost =>
          /\ pc = "record"
          /\ cyc.ok
          /\ Len(published) > 0
          /\ get_last_posted_url(lastPost') = published[Len(published)]
          /\ published[Len(published)] = cur.link ]_vars

\* C4 witness: a cycle for b made two uploads, failed, and the marker is still a
C4_Witness ==
    /\ pc = "sleep"
    /\ cyc.uploads = 2
    /\ ~cyc.ok
    /\ cur.link = <<"b">>
    /\ lastPost = <<"a">>

\* C5: a CSRF error of the first post_photo starts exactly one recovery:
\* ig_settings.json deleted, one fresh poster, a login with username/password
\* alone, and after that login one retry; a failing retry (CSRF again included)
\* is a cycle error with no second recovery; any other error of the first
\* post_photo is not retried.  At most two uploads and one new poster a cycle.
C5_OneRecovery ==
    /\ cyc.uploads <= 2
    /\ cyc.posters <= 1
    /\ cyc.recoveries <= 1
    /\ cyc.posters = cyc.recoveries
    /\ pc = "recover" => (cyc.uploads = 1 /\ cyc.recoveries = 0 /\ cyc.firstErr = MsgCsrf)
    /\ cyc.recoveries = 1 => (cyc.firstErr = MsgCsrf /\ cyc.rcalls[1] = 0 /\ cyc.rcalls[2] = 0)
    /\ (cyc.firstErr # "" /\ cyc.firstErr # MsgCsrf) =>
          (cyc.uploads <= 1 /\ cyc.recoveries = 0 /\ pc \in {"sleep", "top", "dead"}
           /\ cyc.err = cyc.firstErr)
    /\ (cyc.firstErr = MsgCsrf /\ pc \in {"retry", "record", "sleep", "top", "dead"}) =>
          /\ cyc.recoveries = 1
          /\ cyc.rcalls[3] = 1
          /\ IF cyc.relogged
             THEN cyc.uploads = (IF pc = "retry" THEN 1 ELSE 2)
             ELSE cyc.uploads = 1 /\ ~igSettings /\ cyc.err # ""
    /\ pc = "retry" => (logged_in /\ igSettings)
    /\ (cyc.uploads = 2 /\ ~cyc.ok) =>
          (pc \in {"sleep", "top", "dead"} /\ cyc.err # "" /\ cyc.recoveries = 1)

\* C5 witness: the retry failed with a second CSRF error and the cycle ended
C5_Witness ==
    /\ pc = "sleep"
    /\ cyc.uploads = 2
    /\ cyc.recoveries = 1
    /\ cyc.err = MsgCsrf
    /\ metrics.last_error = MsgCsrf

\* C6: post_photo is only called on a poster whose logged_in is true (fails:
\* after a recovery whose login raised, the loop keeps the fresh poster).
C6_PostPhotoOnlyLoggedIn ==
    pc \in {"publish", "retry"} => logged_in

\* C7: a cycle that found a new entry, downloaded its image and met no platform
\* rejection ends with the entry uploaded and the marker updated, whatever
\* failed in earlier cycles (fails after a recovery whose login raised).
C7_LaterCycleHeals ==
    (pc = "sleep" /\ cyc.ready /\ cyc.rejects = 0) =>
        (cyc.ok /\ lastPost = cur.link)

\* C8: once the loop is entered the thread ends only at the top of the loop
\* with stop_event set; an exception in a cycle is caught, written to
\* last_error, and the cycle goes to its sleep and then to the top of the loop.
C8_CycleErrorNeverKills ==
    /\ [][ (pc \in CyclePcs /\ pc' = "dead") => (pc = "top" /\ stop_event) ]_vars
    /\ [][ (cyc'.err # "" /\ cyc.err = "" /\ pc \in CyclePcs) =>
              (pc' = "sleep" /\ metrics'.last_error = cyc'.err /\ metrics'.running) ]_vars
    /\ [][ pc = "sleep" => pc' \in {"sleep", "top"} ]_vars
    /\ [][ (pc = "top" /\ ~stop_event) => pc' \in {"top", "poll"} ]_vars

\* C8 witness: a cycle polls after the cycle before it failed in the recording
C8_Witness ==
    /\ pc = "poll"
    /\ metrics.last_error = MsgWrite
    /\ metrics.running

\* C9 (as stated): a TwoFactorRequired or ChallengeRequired answer to any
\* strategy of login() makes login() raise that kind and try no later strategy
\* (fails: restore and the sessionid login catch every exception).
C9_AnyStrategySurfaces ==
    lg.done =>
      \A i \in 1..3 :
        lg.got[i] \in Verification =>
          /\ lg.raised = (IF lg.got[i] = "challenge" THEN "ChallengeRequired"
                          ELSE "TwoFactorRequired")
          /\ \A j \in (i + 1)..3 : lg.calls[j] = 0

\* C9 (amended): login() raises TwoFactorRequired or ChallengeRequired exactly
\* when the username/password login got that answer; the same answer to the
\* restore probe or to the sessionid login only fails that strategy, and the
\* chain goes on to the next one.
C9_CredentialsSurface ==
    lg.done =>
      /\ lg.got[3] = "challenge" <=> lg.raised = "ChallengeRequired"
      /\ lg.got[3] = "twofactor" <=> lg.raised = "TwoFactorRequired"
      /\ lg.got[1] \in Verification =>
            (IF args.sessionid # << >> THEN lg.calls[2] = 1 ELSE lg.calls[3] = 1)
      /\ lg.got[2] \in Verification => lg.calls[3] = 1
      /\ lg.raised # "" => lg.calls[3] = 1

\* C9 witness: the restore probe met a challenge, the credentials login a 2FA demand
C9_Witness ==
    /\ lg.done
    /\ lg.got[1] = "challenge"
    /\ lg.got[3] = "twofactor"
    /\ lg.raised = "TwoFactorRequired"
    /\ pc = "dead"

\* C10: login() runs once per worker; when it raises, the thread ends with
\* running false and the reason in last_error, and that worker has polled no
\* feed, made no upload and begun no recovery (the cycle history, cleared when
\* the worker was started, is still empty).
C10_LoginFailureFatal ==
    /\ wk.logins <= 1
    /\ (lg.done /\ lg.raised # "") <=> wk.loginFailed
    /\ wk.loginFailed =>
          /\ pc = "dead"
          /\ ~metrics.running
          /\ metrics.last_error =
                (CASE lg.raised = "TwoFactorRequired" -> "2FA required"
                   [] lg.raised = "ChallengeRequired" -> "Challenge required"
                   [] OTHER -> "login failed")
          /\ ~cyc.polled
          /\ cyc.lookups = 0
          /\ cyc.uploads = 0
          /\ cyc.recoveries = 0

\* C10 witness: login() raised ChallengeRequired
C10_Witness ==
    /\ wk.loginFailed
    /\ lg.raised = "ChallengeRequired"
    /\ metrics.last_error = "Challenge required"

\* C11: when ig_settings.json exists and its probe succeeds, login() returns
\* authenticated after the restore alone: no login_by_sessionid and no
\* cl.login call is made, whatever sessionid and credentials the worker has.
C11_RestoreStopsChain ==
    (lg.done /\ lg.blob0 /\ lg.got[1] = "ok") =>
        /\ lg.calls = <<1, 0, 0>>
        /\ lg.restored
        /\ lg.raised = ""
        /\ logged_in
        /\ igSettings
        /\ ~wk.loginFailed

\* C11 witness: a worker with a sessionid restored its saved session
C11_Witness ==
    /\ lg.done
    /\ lg.blob0
    /\ lg.got[1] = "ok"
    /\ args.sessionid # << >>
    /\ pc = "top"

\* C12: with ig_settings.json present, its probe failing and no sessionid,
\* login() probes once, deletes the file, makes no sessionid call and calls
\* cl.login; when the platform accepts the credentials it returns
\* authenticated with a newly saved ig_settings.json.
C12_ChainExhaustion ==
    (lg.done /\ lg.blob0 /\ lg.got[1] # "ok" /\ args.sessionid = << >>) =>
        /\ lg.calls = <<1, 0, 1>>
        /\ ~lg.restored
        /\ ~lg.blob1
        /\ lg.got[3] = "ok" => (lg.raised = "" /\ logged_in /\ igSettings)
        /\ lg.got[3] # "ok" => (lg.raised # "" /\ ~igSettings /\ pc = "dead")

\* C12 witness: stale session, no sessionid, credentials accepted
C12_Witness ==
    /\ lg.done
    /\ lg.blob0
    /\ lg.got = <<"fail", "", "ok">>
    /\ args.sessionid = << >>
    /\ logged_in
    /\ igSettings

\* C19 (as stated): login_with_sessionid returns True only when its probe
\* succeeded (fails: the exception of the warm-up probe is swallowed).
C19_CookieOnlyThroughProbe ==
    (lg.done /\ lg.cookied) => lg.warm = "ok"

\* C19 (amended): login_with_sessionid returns True, sets logged_in and saves
\* ig_settings.json exactly when login_by_sessionid succeeds, whatever the
\* warm-up probe answers; when login_by_sessionid fails it returns False
\* without raising, leaves logged_in false and ig_settings.json as it was, and
\* login() goes on to cl.login.  An empty sessionid makes no platform call.
C19_CookieByLoginAlone ==
    lg.done =>
        /\ args.sessionid = << >> => (lg.calls[2] = 0 /\ ~lg.cookied)
        /\ lg.calls[2] = 1 =>
              /\ ~lg.restored
              /\ lg.cookied <=> lg.got[2] = "ok"
              /\ lg.cookied => /\ lg.warm \in WarmAnswers
                               /\ lg.li2 /\ lg.blob2
                               /\ lg.calls[3] = 0
                               /\ lg.raised = ""
                               /\ logged_in /\ igSettings
              /\ ~lg.cookied => /\ lg.warm = ""
                                /\ ~lg.li2
                                /\ lg.blob2 = lg.blob1
                                /\ lg.calls[3] = 1

\* C19 witness: the sessionid login succeeded although its warm-up probe failed
C19_Witness ==
    /\ lg.done
    /\ lg.cookied
    /\ lg.warm = "fail"
    /\ logged_in
    /\ pc = "top"

\* C20: try_restore_settings_session without ig_settings.json makes no
\* platform call, returns False and leaves logged_in and the store as they
\* were; with a file whose probe fails it deletes the file, leaves logged_in
\* false and returns False (a later restore then finds no file and does not
\* probe); with a file whose probe succeeds it sets logged_in, returns True
\* and keeps the file.
C20_Restore ==
    lg.done =>
        /\ ~lg.blob0 => /\ lg.calls[1] = 0
                        /\ ~lg.restored
                        /\ ~lg.blob1
                        /\ lg.li1 = lg.li0
        /\ (lg.blob0 /\ lg.got[1] # "ok") => /\ lg.calls[1] = 1
                                             /\ ~lg.restored
                                             /\ ~lg.blob1
                                             /\ ~lg.li1
        /\ (lg.blob0 /\ lg.got[1] = "ok") => /\ lg.calls[1] = 1
                                             /\ lg.restored
                                             /\ lg.blob1
                                             /\ lg.li1
                                             /\ igSettings
        /\ lg.calls[1] = 1 <=> lg.blob0

\* C20 witness: a stale session was deleted and the whole login failed, so the
\* next worker will find no file
C20_Witness ==
    /\ lg.done
    /\ lg.blob0
    /\ lg.got[1] = "challenge"
    /\ ~lg.blob1
    /\ ~igSettings
    /\ pc = "dead"

\* C13: at most one bot thread is alive, and at most one /start handler is
\* inside the bot_lock section, only while no thread is alive; while a thread
\* is alive no step starts a thread, replaces the thread's arguments or
\* clears stop_event.
C13_AtMostOneWorker ==
    /\ [](/\ workers_alive <= 1
          /\ orphans = 0
          /\ Len(starting) <= 1
          /\ is_alive => starting = << >>)
    /\ [][ is_alive => /\ starting' = << >>
                       /\ args' = args
                       /\ wk' = NewWorker => wk = NewWorker
                       /\ pc' = "start" => pc = "start"
                       /\ stop_event => stop_event' ]_vars

\* C13 witness: a /start with another sessionid was served while the worker
\* was alive and stopped; the worker goes on with its own arguments
C13_Witness ==
    /\ pc = "publish"
    /\ stop_event
    /\ cfg.sessionid # args.sessionid
    /\ cfg.username = args.username
    /\ workers_alive = 1

C15_RunningResetOnExit ==
    pc = "dead" => ~metrics.running

\* C16: once device_seed.json holds an identity, no step changes the file,
\* generates an identity or writes the file again, and every poster built
\* from then on carries the stored identity.
C16_DeviceIdentityStable ==
    /\ [](/\ dv.dev # 0 => dv.dev = deviceSeed
          /\ pc \notin {"none", "start"} => (deviceSeed # 0 /\ dv.dev = deviceSeed))
    /\ [][ deviceSeed # 0 => /\ deviceSeed' = deviceSeed
                             /\ dv'.gens = dv.gens
                             /\ dv'.writes = dv.writes
                             /\ dv'.dev \in {dv.dev, deviceSeed} ]_vars

\* C16 witness: the recovery of a later cycle built a poster, the second
\* construction at least, and one identity was generated and written once
C16_Witness ==
    /\ pc = "retry"
    /\ cyc.posters = 1
    /\ Len(published) > 0
    /\ deviceSeed = 1
    /\ dv = [dev |-> 1, gens |-> 1, writes |-> 1]

C18_NoImageNoPost ==
    /\ cyc.img = "none" => (cyc.downloads = 0 /\ cyc.uploads = 0 /\ pc \in {"sleep", "top"})
    /\ (cyc.downloads = 1 /\ ~cyc.ready) => (cyc.uploads = 0 /\ pc \in {"sleep", "top"})
    /\ cyc.uploads > 0 => (cyc.img = "url" /\ cyc.ready)
    /\ pc \in {"publish", "recover", "retry", "record"} => (cyc.img = "url" /\ cyc.ready)
    /\ cyc.img = "url" => /\ cyc.body \in {"empty", "text"}
                          /\ pc = "download" \/ cyc.downloads = 1
    /\ cyc.lookups <= 1
    /\ cyc.downloads <= 1

\* C18 witness: an entry with an image and an empty excerpt was uploaded
C18_Witness ==
    /\ pc = "sleep"
    /\ cyc.img = "url"
    /\ cyc.body = "empty"
    /\ cyc.ok
    /\ lastPost = cur.link

\* C21: a /start whose username or password is empty after the fallback to
\* config.json, a sessionid given or not, changes neither config.json nor
\* stop_event, enters no bot_lock section and starts no thread: threads and
\* handlers in the section always carry a username and a password.  A
\* /start with both, while no thread is alive and the lock is free, can
\* enter the section with its arguments, and the section ends with exactly
\* one thread started with them.
C21_StartRejected ==
    /\ [](/\ rejected => missing_credentials(strip(cfg.username), strip(cfg.password))
          /\ pc # "none" => ~missing_credentials(args.username, args.password)
          /\ \A i \in 1..Len(starting) :
                ~missing_credentials(starting[i].username, starting[i].password)
          /\ \A u \in FormUsers, p \in FormPasswords, s \in FormSessionids :
                LET username == Or(strip(u), strip(cfg.username))
                    password == Or(strip(p), strip(cfg.password))
                    sessionid == Or(strip(s), strip(cfg.sessionid))
                    a == [username |-> username, password |-> password,
                          sessionid |-> sessionid]
                IN  IF username = << >> \/ password = << >>
                    THEN ENABLED (Start(u, p, s) /\ rejected')
                    ELSE (~is_alive /\ starting = << >>) =>
                            ENABLED (Start(u, p, s) /\ starting' = <<a>> /\ cfg' = a))
    /\ [][ (~rejected /\ rejected') =>
              UNCHANGED <<cfg, stop_event, pc, args, starting, orphans, metrics>> ]_vars
    /\ [][ (starting # << >> /\ starting' # starting) =>
              /\ starting' = << >>
              /\ pc' = "start"
              /\ args' = Head(starting)
              /\ workers_alive' = 1 ]_vars

\* C21 witness: after a /stop, a /start without credentials was rejected;
\* stop_event is still set and config.json still empty
C21_Witness ==
    /\ rejected
    /\ stop_event
    /\ cfg.username = << >>
    /\ pc = "none"

\* C22: whenever no thread is inside log(), the buffer holds the
\* min(appended, 400) most recently appended lines, oldest first, and /logs
\* returns exactly them; inside log() it holds at most one line more.  After
\* 500 appends it holds lines 101..500.
C22_BoundedLogBuffer ==
    /\ Len(get_logs(logs)) <= LogCap
    /\ Len(logs) <= LogCap + 1
    /\ logs_lock = "" =>
          /\ Len(logs) = (IF appended < LogCap THEN appended ELSE LogCap)
          /\ \A i \in 1..Len(logs) : logs[i] = appended - Len(logs) + i
          /\ get_logs(logs) = logs
    /\ (logs_lock = "" /\ appended = 500) =>
          (Len(logs) = 400 /\ logs[1] = 101 /\ logs[400] = 500)

\* C22 witness: 500 lines were appended by whichever threads, the last call ended
C22_Witness ==
    /\ appended = 500
    /\ logs_lock = ""
    /\ Len(logs) = 400
    /\ logs[1] = 101

\* C23: stop_event is cleared only by the step of /start that starts a
\* thread, inside the bot_lock section and while no thread is alive, and
\* every started thread begins with the event clear, whatever /stop requests
\* came while no thread was alive; the event is set by /stop alone, and the
\* thread leaves the loop at its check only with the event set, so only
\* after a /stop later than that clear.
C23_StaleStopHarmless ==
    /\ [][ (stop_event /\ ~stop_event') =>
              (starting # << >> /\ ~is_alive /\ pc' = "start") ]_vars
    /\ [][ (pc' = "start" /\ (pc # "start" \/ args' # args \/ starting' # starting)) =>
              (~stop_event' /\ starting # << >>) ]_vars
    /\ [][ (~stop_event /\ stop_event') =>
              UNCHANGED <<pc, starting, args, cfg, metrics, orphans>> ]_vars
    /\ [][ (pc \in CyclePcs /\ is_alive /\ ~stop_event) => pc' # "dead" ]_vars
    /\ [][ (is_alive /\ pc' = "dead" /\ ~wk'.loginFailed) => stop_event ]_vars

\* C23 witness: an earlier worker published and was stopped, leaving
\* stop_event set; a new worker was started, found the event clear and has
\* logged in
C23_Witness ==
    /\ pc = "mkdir"
    /\ Len(published) > 0
    /\ ~stop_event
    /\ metrics.running
    /\ workers_alive = 1

====
